---- MODULE Spec2Model ----
(***************************************************************************)
(* State-machine model of the playback tracker: the Library Service        *)
(* (core/services.py), the JSON session repository (core/repository.py),   *)
(* the media-file enumeration (core/utils.py) and the mpv player driver    *)
(* (core/drivers/mpv_driver.py).                                           *)
(*                                                                         *)
(* Paths are sequences of their "/"-separated components, so that          *)
(* os.path.basename / os.path.dirname are computed and not assumed; a      *)
(* trailing slash is a last component "".  Python's None is the empty      *)
(* sequence <<>> and a present optional value x is <<x>>.                  *)
(***************************************************************************)
EXTENDS Integers, Sequences, FiniteSets, TLC

(***************************************************************************)
(* Bounds of the model.                                                    *)
(***************************************************************************)
\* number of driver launches one behaviour may contain (also the clock range)
MaxLaunches == 2

(***************************************************************************)
(* Value universes the inputs are drawn from.                              *)
(***************************************************************************)
Opt(S) == {<<>>} \cup {<<x>> : x \in S}

\* the session keys used by the callers: a file and a directory written with
\* a trailing slash (its base name is the empty string)
FilePath == <<"Show", "e1.mkv">>
DirPath == <<"Show", "">>
Paths == {FilePath, DirPath}

\* directories that exist, and every file that may exist under them
Dirs == {<<"Show">>}
AllFiles == {<<"Show", "e1.mkv">>, <<"Show", "e2.mkv">>, <<"Show", "e3.mkv">>,
             <<"Show", "n.txt">>}

\* the paths the player may report as the file it plays
MediaFiles == {<<"Show", "e1.mkv">>, <<"Show", "e2.mkv">>, <<"Show", "e3.mkv">>}

\* the files that come and go while the program runs
ChangingFiles == {<<"Show", "e1.mkv">>}

\* titles a caller may pass, titles the guesser may return, season numbers
Titles == {"", "T"}
GuessTitles == {"", "G"}
Seasons == {1, 2}

\* seconds reported by the player for duration and position
Nums == {0, 3, 10}

(***************************************************************************)
(* core/domain.py                                                          *)
(***************************************************************************)
PlaybackState(file, index, pos, dur, fin, ts) ==
    [last_played_file |-> file, last_played_index |-> index, position |-> pos,
     duration |-> dur, is_finished |-> fin, timestamp |-> ts]

DefaultPlaybackState(ts) == PlaybackState(<<>>, 0, 0, 0, FALSE, ts)

MediaMetadata(title, season, locked) ==
    [clean_title |-> title, season_number |-> season,
     is_user_locked_title |-> locked]

Session(path, metadata, playback) ==
    [filepath |-> path, metadata |-> metadata, playback |-> playback]

(***************************************************************************)
(* os.path and core/utils.py                                               *)
(***************************************************************************)
basename(p) == IF Len(p) = 0 THEN "" ELSE p[Len(p)]

dirname(p) == IF Len(p) = 0 THEN <<>> ELSE SubSeq(p, 1, Len(p) - 1)

\* a directory named with a trailing slash is the directory
NormPath(p) == IF Len(p) > 0 /\ p[Len(p)] = "" THEN dirname(p) ELSE p

IsPrefix(d, f) == Len(d) < Len(f) /\ SubSeq(f, 1, Len(d)) = d

\* code-point order of the component strings that occur
StrOrder == <<"", "Show", "e1.mkv", "e2.mkv", "e3.mkv", "n.txt">>

StrRank(s) == CHOOSE i \in 1..Len(StrOrder) : StrOrder[i] = s

RECURSIVE PathLess(_, _)
PathLess(a, b) ==
    IF Len(a) = 0 THEN Len(b) > 0
    ELSE IF Len(b) = 0 THEN FALSE
    ELSE IF a[1] # b[1] THEN StrRank(a[1]) < StrRank(b[1])
    ELSE PathLess(Tail(a), Tail(b))

RECURSIVE sorted(_)
sorted(S) ==
    IF S = {} THEN <<>>
    ELSE LET m == CHOOSE x \in S : \A y \in S \ {x} : PathLess(x, y)
         IN <<m>> \o sorted(S \ {m})

\* file.lower().endswith(('.mkv', '.mp4', '.avi', '.mov'))
HasMediaSuffix(name) == name \in {"e1.mkv", "e2.mkv", "e3.mkv"}

isfile(files, p) == p \in files

isdir(p) == NormPath(p) \in Dirs

get_media_files(files, path) ==
    IF isdir(path)
    THEN sorted({f \in files : IsPrefix(NormPath(path), f)
                               /\ HasMediaSuffix(basename(f))})
    ELSE <<>>

\* list.index with the ValueError fallback of launch_media
IndexOf(seq, x) ==
    IF \E i \in 1..Len(seq) : seq[i] = x
    THEN (CHOOSE i \in 1..Len(seq) : seq[i] = x
                                     /\ \A j \in 1..(i - 1) : seq[j] # x) - 1
    ELSE 0

(***************************************************************************)
(* core/repository.py                                                      *)
(***************************************************************************)
\* datetime.isoformat() as written by JSONEncoder.default, and its inverse
isoformat(ts) == [iso |-> ts]

fromisoformat(s) == s.iso

\* one entry of serializable_data in _save_to_file
session_dict(session) ==
    [filepath |-> session.filepath,
     metadata |-> session.metadata,
     playback |-> [session.playback EXCEPT !.timestamp = isoformat(@)]]

\* the file written by _save_to_file: every session of the dict, serialized
SaveToFile(dict) ==
    [exists |-> TRUE, data |-> [p \in DOMAIN dict |-> session_dict(dict[p])]]

NoFile == [exists |-> FALSE, data |-> <<>>]

\* variant: the lock flag is not read back
LoadFromFile_LockDropped(file) ==
    IF ~file.exists THEN <<>>
    ELSE [p \in DOMAIN file.data |->
            Session(p,
                    MediaMetadata(file.data[p].metadata.clean_title,
                                  file.data[p].metadata.season_number,
                                  FALSE),
                    [file.data[p].playback EXCEPT !.timestamp = fromisoformat(@)])]

\* _load_from_file: the empty dict when the file does not exist
LoadFromFile(file) ==
    IF ~file.exists THEN <<>>
    ELSE [p \in DOMAIN file.data |->
            Session(p,
                    MediaMetadata(file.data[p].metadata.clean_title,
                                  file.data[p].metadata.season_number,
                                  file.data[p].metadata.is_user_locked_title),
                    [file.data[p].playback EXCEPT !.timestamp = fromisoformat(@)])]

Put(dict, key, value) ==
    [p \in DOMAIN dict \cup {key} |-> IF p = key THEN value ELSE dict[p]]

Remove(dict, key) == [p \in DOMAIN dict \ {key} |-> dict[p]]

\* variant: the file is written before the dict is updated
save_session_StaleWrite(repo, session, writeOk) ==
    [sessions |-> Put(repo.sessions, session.filepath, session),
     storage |-> IF writeOk THEN SaveToFile(repo.sessions) ELSE repo.storage]

\* save_session on the pair (dict, file); when the write fails the dict
\* already holds the session and the file keeps its content
save_session(repo, session, writeOk) ==
    LET dict == Put(repo.sessions, session.filepath, session)
    IN [sessions |-> dict,
        storage |-> IF writeOk THEN SaveToFile(dict) ELSE repo.storage]

\* delete_session on the pair (dict, file)
delete_session(repo, path, writeOk) ==
    IF path \in DOMAIN repo.sessions
    THEN LET dict == Remove(repo.sessions, path)
         IN [sessions |-> dict,
             storage |-> IF writeOk THEN SaveToFile(dict) ELSE repo.storage]
    ELSE repo

(***************************************************************************)
(* core/services.py: session creation and metadata                         *)
(***************************************************************************)
\* what guessit(filepath) does: raise, or return a dict that may hold a
\* title and may hold a season
Guesses ==
    {[raises |-> TRUE, title |-> <<>>, season |-> <<>>]}
    \cup [raises : {FALSE}, title : Opt(GuessTitles), season : Opt(Seasons)]

\* variant: the guessed title is ignored
InitialTitle_NoGuess(path, guess) == basename(path)

InitialTitle(path, guess) ==
    IF ~guess.raises /\ guess.title # <<>> THEN guess.title[1]
    ELSE basename(path)

InitialSeason(guess) ==
    IF ~guess.raises THEN guess.season ELSE <<>>

NewSession(path, guess, ts) ==
    Session(path,
            MediaMetadata(InitialTitle(path, guess), InitialSeason(guess), FALSE),
            DefaultPlaybackState(ts))

\* variant: any provided lock flag opens the title, not only False
TitleWritable_AnyFlag(metadata, lock) ==
    ~metadata.is_user_locked_title \/ lock # <<>>

\* the title test of update_session_metadata
TitleWritable(metadata, lock) ==
    ~metadata.is_user_locked_title \/ lock = <<FALSE>>

\* variant: the lock guards the season and the flag as it guards the title
UpdatedMetadata_LockGuardsAll(metadata, title, season, lock) ==
    IF TitleWritable(metadata, lock)
    THEN [clean_title |-> IF title # <<>> THEN title[1] ELSE metadata.clean_title,
          season_number |-> IF season # <<>> THEN season
                            ELSE metadata.season_number,
          is_user_locked_title |-> IF lock # <<>> THEN lock[1]
                                   ELSE metadata.is_user_locked_title]
    ELSE metadata

UpdatedMetadata(metadata, title, season, lock) ==
    [clean_title |-> IF title # <<>> /\ TitleWritable(metadata, lock)
                     THEN title[1] ELSE metadata.clean_title,
     season_number |-> IF season # <<>> THEN season ELSE metadata.season_number,
     is_user_locked_title |-> IF lock # <<>> THEN lock[1]
                              ELSE metadata.is_user_locked_title]

VARIABLES
    sessions,   \* the dict shared by JsonRepository.sessions and LibraryService.sessions
    storage,    \* the backing JSON file
    fs,         \* the files that exist on disk
    now,        \* the clock read by datetime.now()
    last,       \* the last Library Service call: its arguments and how it ended
    pc,         \* where launch_media / MpvDriver.launch stands ("idle": not running)
    frame,      \* locals of launch_media: filepath, series_files, index_to_play, start_time
    drv,        \* locals of MpvDriver.launch
    process,    \* the spawned player process
    ipc,        \* the IPC socket of the running launch
    result,     \* the PlaybackState returned by MpvDriver.launch
    player,     \* the player: the playlist entry it plays, position, loaded, paused
    sock,       \* whether the socket file named by socket_path exists
    sent,       \* the running launch's first positive duration answer and the
                \* seek and unpause commands it has sent, in order
    errors,     \* polls issued on a connection that has failed
    request_id_counter, \* MpvDriver.request_id_counter
    call,       \* the running _send_ipc_command call, and the calls before it
    chan,       \* the player's end of the connection: lines not yet received, ...
    launches,   \* concurrent MpvDriver.launch calls: host process, position, endpoint
    endpoints,  \* the IPC endpoints that exist, each with the launch whose player made it
    is_windows, \* sys.platform.startswith('win')
    sessions2   \* the dict of a second JsonRepository on the same file

svcVars == <<sessions, storage, last>>
drvVars == <<pc, frame, drv, process, ipc, result>>
libVars == <<sessions, storage, fs, now, last>>
plyVars == <<player, sock, sent, errors>>
ipcVars == <<request_id_counter, call, chan>>
conVars == <<launches, endpoints, is_windows>>
twoVars == <<sessions2>>
envVars == <<plyVars, ipcVars, conVars, twoVars>>
vars == <<sessions, storage, fs, now, last, pc, frame, drv, process, ipc, result,
          player, sock, sent, errors, request_id_counter, call, chan,
          launches, endpoints, is_windows, sessions2>>

Repo == [sessions |-> sessions, storage |-> storage]

Call(op, path, title, season, lock, existed, raised, line) ==
    [op |-> op, path |-> path, title |-> title, season |-> season, lock |-> lock,
     existed |-> existed, raised |-> raised, line |-> line,
     ret |-> DefaultPlaybackState(0)]

\* variant: an existing session has its title guessed again
get_or_create_session_Reguess(repo, path, guess, ts, writeOk) ==
    IF path \in DOMAIN repo.sessions
    THEN [repo |-> [repo EXCEPT !.sessions[path].metadata.clean_title =
                                    InitialTitle(path, guess)],
          created |-> FALSE, raised |-> FALSE]
    ELSE [repo |-> save_session(repo, NewSession(path, guess, ts), writeOk),
          created |-> TRUE, raised |-> ~writeOk]

\* variant: an error of the first save is swallowed
get_or_create_session_Swallow(repo, path, guess, ts, writeOk) ==
    IF path \in DOMAIN repo.sessions
    THEN [repo |-> repo, created |-> FALSE, raised |-> FALSE]
    ELSE [repo |-> save_session(repo, NewSession(path, guess, ts), writeOk),
          created |-> TRUE, raised |-> FALSE]

\* get_or_create_session on the pair (dict, file): the pair afterwards,
\* whether a session was created and whether persisting it raised
get_or_create_session(repo, path, guess, ts, writeOk) ==
    IF path \in DOMAIN repo.sessions
    THEN [repo |-> repo, created |-> FALSE, raised |-> FALSE]
    ELSE [repo |-> save_session(repo, NewSession(path, guess, ts), writeOk),
          created |-> TRUE, raised |-> ~writeOk]

NoFrame == [filepath |-> <<>>, series_files |-> <<>>, index_to_play |-> 0,
            start_time |-> 0]

NoDrv == [final_position |-> 0, total_duration |-> 0, is_finished |-> FALSE,
          last_played_file |-> <<>>, initial_seek_done |-> FALSE]

NoPlayer == [idx |-> 0, pos |-> 0, loaded |-> FALSE, paused |-> TRUE]

\* the data of a reply as _send_ipc_command returns it: None (no answer, an
\* error reply or JSON null), a number, or a string
JNull == [tag |-> "null", num |-> 0, str |-> <<>>]
JNum(n) == [tag |-> "num", num |-> n, str |-> <<>>]
JStr(x) == [tag |-> "str", num |-> 0, str |-> x]

\* no _send_ipc_command call yet, nothing on the connection
NoCall == [pc |-> "idle", request_id |-> 0, ret |-> JNull, line |-> 0,
           waited |-> 0, elapsed |-> 0, before |-> <<>>]

NoChan == [stream |-> <<>>, pending |-> {}, emitted |-> {}, closed |-> FALSE]

\* the library when the application starts: no sessions file
EmptyLibrary ==
    /\ storage = NoFile
    /\ sessions = LoadFromFile(storage)
    /\ sessions2 = LoadFromFile(storage)
    /\ fs = AllFiles
    /\ now = 0
    /\ last = Call("none", <<>>, <<>>, <<>>, <<>>, FALSE, FALSE, 0)

\* a new MpvDriver: request_id_counter = 0
NewDriver ==
    /\ request_id_counter = 0
    /\ call = NoCall
    /\ chan = NoChan

NoLaunches ==
    /\ launches = <<>>
    /\ endpoints = <<>>
    /\ is_windows = FALSE

\* launch_media is not running
NoLaunch ==
    /\ pc = "idle"
    /\ frame = NoFrame
    /\ drv = NoDrv
    /\ process = "none"
    /\ ipc = "none"
    /\ result = DefaultPlaybackState(0)
    /\ player = NoPlayer
    /\ sock = FALSE
    /\ sent = <<>>
    /\ errors = 0

Init ==
    /\ EmptyLibrary
    /\ NoLaunch
    /\ NewDriver
    /\ NoLaunches

\* LibraryService.get_or_create_session called by the user interface
Resolve(path, guess, writeOk) ==
    LET r == get_or_create_session(Repo, path, guess, now, writeOk)
    IN /\ pc = "idle"
       /\ sessions' = r.repo.sessions
       /\ storage' = r.repo.storage
       /\ last' = Call("resolve", path, <<>>, <<>>, <<>>, ~r.created, r.raised,
                       IF r.created THEN 60 ELSE 33)
       /\ UNCHANGED <<fs, now, drvVars>>

\* LibraryService.update_session_metadata; failAt is the write of this call
\* that fails (0: none)
UpdateMetadata(path, title, season, lock, guess, failAt) ==
    LET r == get_or_create_session(Repo, path, guess, now, failAt # 1)
        nth == IF r.created THEN 2 ELSE 1
        old == r.repo.sessions[path]
        new == [old EXCEPT !.metadata = UpdatedMetadata(@, title, season, lock)]
        saved == save_session(r.repo, new, failAt # nth)
    IN /\ pc = "idle"
       /\ failAt <= nth
       /\ IF r.raised
          THEN /\ sessions' = r.repo.sessions
               /\ storage' = r.repo.storage
               /\ last' = Call("update", path, title, season, lock, ~r.created,
                               TRUE, 58)
          ELSE /\ sessions' = saved.sessions
               /\ storage' = saved.storage
               /\ last' = Call("update", path, title, season, lock, ~r.created,
                               failAt = nth, 83)
       /\ UNCHANGED <<fs, now, drvVars>>

\* JsonRepository.delete_session as called by the user interface
Delete(path, writeOk) ==
    LET r == delete_session(Repo, path, writeOk)
    IN /\ pc = "idle"
       /\ path \in DOMAIN sessions
       /\ sessions' = r.sessions
       /\ storage' = r.storage
       /\ last' = Call("delete", path, <<>>, <<>>, <<>>, TRUE, ~writeOk, 100)
       /\ UNCHANGED <<fs, now, drvVars>>

\* SessionManagerFacade.delete_session: the repository deletes from the dict
\* it shares with the service, so the del of line 117 finds no key and
\* raises KeyError; a path without a session is left alone
FacadeDelete(path, writeOk) ==
    LET r == delete_session(Repo, path, writeOk)
        found == path \in DOMAIN sessions
    IN /\ pc = "idle"
       /\ sessions' = r.sessions
       /\ storage' = r.storage
       /\ last' = Call("facade_delete", path, <<>>, <<>>, <<>>, found, found,
                       IF ~found THEN 112 ELSE IF writeOk THEN 117 ELSE 113)
       /\ UNCHANGED <<fs, now, drvVars>>

(***************************************************************************)
(* core/services.py: launch_media                                          *)
(***************************************************************************)
get_series_files(files, session) ==
    LET series_path == IF isfile(files, session.filepath)
                       THEN dirname(session.filepath)
                       ELSE session.filepath
    IN get_media_files(files, series_path)

\* variant: an empty playlist is handed to the driver
NothingToPlay_Never(series_files) == FALSE

\* "No media files found in series.": the test "if not series_files"
NothingToPlay(series_files) == Len(series_files) = 0

\* variant: the bound of the next index is off by one
EndOfSeries_OffByOne(playback, n) ==
    playback.is_finished /\ ~(playback.last_played_index + 1 <= n)

\* "End of series.": the stored state is finished and no next file exists
EndOfSeries(playback, n) ==
    playback.is_finished /\ ~(playback.last_played_index + 1 < n)

\* variant: a finished episode is played again
IndexToPlay_NoAdvance(playback) == playback.last_played_index

IndexToPlay(playback) ==
    IF playback.is_finished THEN playback.last_played_index + 1
    ELSE playback.last_played_index

\* variant: every launch starts at the beginning
StartTime_Zero(playback) == 0

StartTime(playback) ==
    IF playback.is_finished THEN 0 ELSE playback.position

\* variant: the index of the driver's result is kept
MergedPlayback_DriverIndex(res, series_files) == res

\* the session's playback after the driver returned res
MergedPlayback(res, series_files) ==
    PlaybackState(res.last_played_file,
                  IndexOf(series_files, res.last_played_file),
                  res.position, res.duration, res.is_finished, res.timestamp)

(***************************************************************************)
(* core/drivers/mpv_driver.py                                              *)
(***************************************************************************)
\* float(v): the number, or ValueError/TypeError for anything else
FloatOk(v) == v.tag = "num"

\* Python truth of a reply value
Truthy(v) == (v.tag = "str" /\ v.str # <<>>) \/ (v.tag = "num" /\ v.num # 0)

NumberReplies == {JNull, JStr(<<"n/a">>)} \cup {JNum(n) : n \in Nums}

PathReplies == {JNull, JStr(<<>>)} \cup {JStr(f) : f \in MediaFiles}

FinishedMargin == 5

\* variant: an unknown duration is not told apart
IsFinished_NoDurationTest(total_duration, final_position) ==
    total_duration - final_position < FinishedMargin

\* the classification at the end of the try block
IsFinished(total_duration, final_position) ==
    total_duration > 0 /\ total_duration - final_position < FinishedMargin

\* the intended first file
FirstFile(playlist, start_index) ==
    IF start_index < Len(playlist) THEN playlist[start_index + 1] ELSE playlist[1]

\* the locals when the process has been spawned
DrvStart(playlist, start_index, start_time) ==
    [final_position |-> start_time, total_duration |-> 0, is_finished |-> FALSE,
     last_played_file |-> FirstFile(playlist, start_index),
     initial_seek_done |-> FALSE]

\* variant: every parseable duration answer is adopted
AfterDuration_AlwaysAdopt(d, resp) ==
    [d EXCEPT
       !.total_duration = IF FloatOk(resp) THEN resp.num ELSE @,
       !.initial_seek_done = @ \/ (FloatOk(resp) /\ resp.num > 0)]

\* steps 1 and 2 of a tick: the duration poll, then the seek and unpause
AfterDuration(d, resp) ==
    [d EXCEPT
       !.total_duration = IF FloatOk(resp) /\ d.total_duration = 0
                          THEN resp.num ELSE @,
       !.initial_seek_done = @ \/ (FloatOk(resp) /\ resp.num > 0)]

\* variant: the next episode keeps the position of the one before
AfterPath_KeepsPosition(d, resp) ==
    IF Truthy(resp) /\ resp.str # d.last_played_file
    THEN [d EXCEPT !.last_played_file = resp.str,
                   !.total_duration = 0]
    ELSE d

\* step 3 of a tick: the path poll and the next-episode test
AfterPath(d, resp) ==
    IF Truthy(resp) /\ resp.str # d.last_played_file
    THEN [d EXCEPT !.last_played_file = resp.str,
                   !.total_duration = 0,
                   !.final_position = 0]
    ELSE d

\* variant: a failed position poll counts as second 0
AfterPosition_ZeroOnFailure(d, resp) ==
    [d EXCEPT !.final_position = IF FloatOk(resp) THEN resp.num ELSE 0]

\* step 4 of a tick: the position poll
AfterPosition(d, resp) ==
    IF FloatOk(resp) THEN [d EXCEPT !.final_position = resp.num] ELSE d

\* the PlaybackState built by the return statement
DrvReturn(d, ts) ==
    PlaybackState(d.last_played_file, 0, d.final_position, d.total_duration,
                  d.is_finished, ts)

\* launch_media up to the call of the driver, and MpvDriver.launch up to the
\* spawned process; the two early returns end the call at once
LaunchMedia(path, guess, writeOk) ==
    LET r == get_or_create_session(Repo, path, guess, now, writeOk)
        session == r.repo.sessions[path]
        series_files == get_series_files(fs, session)
        index_to_play == IndexToPlay(session.playback)
        start_time == StartTime(session.playback)
        ended(raised, line) ==
            /\ last' = [Call("launch", path, <<>>, <<>>, <<>>, ~r.created, raised,
                             line) EXCEPT !.ret = session.playback]
            /\ UNCHANGED <<fs, now, drvVars>>
    IN /\ pc = "idle"
       /\ sessions' = r.repo.sessions
       /\ storage' = r.repo.storage
       /\ IF r.raised THEN ended(TRUE, 58)
          ELSE IF NothingToPlay(series_files) THEN ended(FALSE, 113)
          ELSE IF EndOfSeries(session.playback, Len(series_files))
          THEN ended(FALSE, 123)
          ELSE IF Len(series_files) = 0
          THEN \* MpvDriver.launch: "if not playlist: return PlaybackState()"
               /\ now < MaxLaunches
               /\ last' = Call("launch", path, <<>>, <<>>, <<>>, ~r.created,
                               FALSE, 127)
               /\ frame' = [filepath |-> path, series_files |-> series_files,
                            index_to_play |-> index_to_play,
                            start_time |-> start_time]
               /\ now' = now + 1
               /\ result' = DefaultPlaybackState(now + 1)
               /\ pc' = "returned"
               /\ UNCHANGED <<fs, drv, process, ipc>>
          ELSE /\ now < MaxLaunches
               /\ last' = Call("launch", path, <<>>, <<>>, <<>>, ~r.created,
                               FALSE, 127)
               /\ frame' = [filepath |-> path, series_files |-> series_files,
                            index_to_play |-> index_to_play,
                            start_time |-> start_time]
               /\ drv' = DrvStart(series_files, index_to_play, start_time)
               /\ process' = "running"
               /\ ipc' = "none"
               /\ pc' = "connect"
               /\ UNCHANGED <<fs, now, result>>

\* variant: the finally block does nothing
Return_NoCleanup(d, ipcAfter) ==
    /\ drv' = d
    /\ ipc' = ipcAfter
    /\ now' = now + 1
    /\ result' = DrvReturn(d, now + 1)
    /\ pc' = "returned"
    /\ UNCHANGED <<svcVars, fs, frame, process, sock>>

\* the finally block (terminate a running process, remove the socket file)
\* and the return statement
Return(d, ipcAfter) ==
    /\ drv' = d
    /\ ipc' = ipcAfter
    /\ process' = IF process = "running" THEN "terminated" ELSE process
    /\ now' = now + 1
    /\ result' = DrvReturn(d, now + 1)
    /\ sock' = FALSE
    /\ pc' = "returned"
    /\ UNCHANGED <<svcVars, fs, frame>>

\* _connect_ipc returns a socket
ConnectIpc ==
    /\ pc = "connect"
    /\ ipc' = "open"
    /\ pc' = "dur"
    /\ UNCHANGED <<svcVars, fs, now, frame, drv, process, result>>

\* _connect_ipc returns None: ConnectionError, caught by the outer handler
ConnectTimeout ==
    /\ pc = "connect"
    /\ Return(drv, "failed")

\* variant: the loop also ends when the file is near its end
ExitLoop_NearEnd ==
    /\ pc = "dur"
    /\ process # "running" \/ IsFinished(drv.total_duration, drv.final_position)
    /\ Return([drv EXCEPT !.is_finished =
                   IsFinished(drv.total_duration, drv.final_position)], "closed")

\* variant: the loop is left only when the file is near its end
ExitLoop_OnlyNearEnd ==
    /\ pc = "dur"
    /\ process # "running"
    /\ IsFinished(drv.total_duration, drv.final_position)
    /\ Return([drv EXCEPT !.is_finished =
                   IsFinished(drv.total_duration, drv.final_position)], "closed")

\* the loop test fails: close the socket, classify, clean up and return
ExitLoop ==
    /\ pc = "dur"
    /\ process # "running"
    /\ Return([drv EXCEPT !.is_finished =
                   IsFinished(drv.total_duration, drv.final_position)], "closed")

PollDuration(resp) ==
    /\ pc = "dur"
    /\ process = "running"
    /\ drv' = AfterDuration(drv, resp)
    /\ pc' = "path"
    /\ UNCHANGED <<svcVars, fs, now, frame, process, ipc, result>>

PollPath(resp) ==
    /\ pc = "path"
    /\ drv' = AfterPath(drv, resp)
    /\ pc' = "pos"
    /\ UNCHANGED <<svcVars, fs, now, frame, process, ipc, result>>

PollPosition(resp) ==
    /\ pc = "pos"
    /\ drv' = AfterPosition(drv, resp)
    /\ pc' = "dur"
    /\ UNCHANGED <<svcVars, fs, now, frame, process, ipc, result>>

\* the player process ends (at the end of the playlist, or closed by the user)
PlayerExit ==
    /\ process = "running"
    /\ process' = "exited"
    /\ UNCHANGED <<svcVars, fs, now, pc, frame, drv, ipc, result>>

\* launch_media after the driver returned: merge, persist, return
Merge(writeOk) ==
    LET path == frame.filepath
        session == [sessions[path] EXCEPT
                      !.playback = MergedPlayback(result, frame.series_files)]
        saved == save_session(Repo, session, writeOk)
    IN /\ pc = "returned"
       /\ sessions' = saved.sessions
       /\ storage' = saved.storage
       /\ last' = [last EXCEPT !.raised = ~writeOk, !.line = 146,
                                !.ret = session.playback]
       /\ pc' = "idle"
       /\ frame' = NoFrame
       /\ drv' = NoDrv
       /\ process' = "none"
       /\ ipc' = "none"
       /\ result' = DefaultPlaybackState(0)
       /\ UNCHANGED <<fs, now>>

\* a file of the library appears or disappears between two calls
FsChange(f) ==
    /\ pc = "idle"
    /\ fs' = IF f \in fs THEN fs \ {f} ELSE fs \cup {f}
    /\ UNCHANGED <<svcVars, now, drvVars>>

NoGuess == [raises |-> TRUE, title |-> <<>>, season |-> <<>>]

Next ==
    \/ \E p \in Paths : LaunchMedia(p, NoGuess, TRUE) /\ UNCHANGED envVars
    \/ ConnectIpc /\ UNCHANGED envVars
    \/ ConnectTimeout /\ UNCHANGED envVars
    \/ \E v \in NumberReplies : PollDuration(v) /\ UNCHANGED envVars
    \/ \E v \in PathReplies : PollPath(v) /\ UNCHANGED envVars
    \/ \E v \in NumberReplies : PollPosition(v) /\ UNCHANGED envVars
    \/ PlayerExit /\ UNCHANGED envVars
    \/ ExitLoop /\ UNCHANGED envVars
    \/ Merge(TRUE) /\ UNCHANGED envVars
    \/ \E f \in ChangingFiles : FsChange(f) /\ UNCHANGED envVars

Spec == Init /\ [][Next]_vars

\* the guesser is consulted only when the path has no session yet
GuessesFor(path) ==
    IF path \in DOMAIN sessions
    THEN {NoGuess}
    ELSE Guesses

NextMeta ==
    \/ \E p \in Paths : \E g \in GuessesFor(p) :
          Resolve(p, g, TRUE) /\ UNCHANGED envVars
    \/ \E p \in Paths, t \in Opt(Titles), s \in Opt(Seasons), l \in Opt(BOOLEAN) :
          \E g \in GuessesFor(p) :
             UpdateMetadata(p, t, s, l, g, 0) /\ UNCHANGED envVars
    \/ \E p \in Paths : Delete(p, TRUE) /\ UNCHANGED envVars

SpecMeta == Init /\ [][NextMeta]_vars

(***************************************************************************)
(* MpvDriver.launch against a player: mpv spawned paused with the playlist *)
(* on its command line, on a platform with socket files                    *)
(***************************************************************************)
\* the length of each media file
FileDur(f) == IF f = <<"Show", "e2.mkv">> THEN 3 ELSE 10

Min(a, b) == IF a < b THEN a ELSE b

\* the player as Popen spawns it: --playlist-start, --pause
PlayerStart(start_index) ==
    [idx |-> start_index + 1, pos |-> 0, loaded |-> FALSE, paused |-> TRUE]

\* the file the player plays
Playing == frame.series_files[player.idx]

\* what a poll can return: the property's value, or None (no answer within
\* the timeout, an error reply, a failed connection, a player that is gone)
Answers(values) ==
    IF ipc = "open" /\ process = "running" THEN {JNull} \cup values ELSE {JNull}

DurationAnswers == Answers(IF player.loaded THEN {JNum(FileDur(Playing))} ELSE {})

PathAnswers == Answers({JStr(Playing)})

PositionAnswers == Answers(IF player.loaded THEN {JNum(player.pos)} ELSE {})

\* variant: the seek and unpause do not wait for a positive duration
HandshakeCommands_NoDurationTest(d, resp, start_time) ==
    IF ~d.initial_seek_done
    THEN (IF start_time > 0
          THEN <<[name |-> "seek", arg |-> start_time]>> ELSE <<>>)
         \o <<[name |-> "unpause", arg |-> 0]>>
    ELSE <<>>

\* step 2 of a tick: the commands sent after the duration poll returned resp
HandshakeCommands(d, resp, start_time) ==
    IF ~d.initial_seek_done /\ FloatOk(resp) /\ resp.num > 0
    THEN (IF start_time > 0
          THEN <<[name |-> "seek", arg |-> start_time]>> ELSE <<>>)
         \o <<[name |-> "unpause", arg |-> 0]>>
    ELSE <<>>

\* the first positive answer to a duration poll, as logged
Observed(resp) ==
    IF FloatOk(resp) /\ resp.num > 0 /\ \A i \in 1..Len(sent) : sent[i].name # "duration"
    THEN <<[name |-> "duration", arg |-> resp.num, playing |-> Playing]>>
    ELSE <<>>

\* the commands as logged: each with the file the player plays on arrival
Stamp(cmds) ==
    [i \in 1..Len(cmds) |->
        [name |-> cmds[i].name, arg |-> cmds[i].arg, playing |-> Playing]]

\* the player obeys a command: an absolute seek (not past the end), or
\* set_property pause false
Obey(pl, cmd) ==
    IF cmd.name = "seek"
    THEN [pl EXCEPT !.pos = Min(cmd.arg, FileDur(Playing))]
    ELSE [pl EXCEPT !.paused = FALSE]

RECURSIVE PlayerAfter(_, _)
PlayerAfter(pl, cmds) ==
    IF cmds = <<>> THEN pl ELSE PlayerAfter(Obey(pl, Head(cmds)), Tail(cmds))

\* one more poll on a failed connection (counted up to two)
Failed(n) == IF ipc = "broken" THEN Min(n + 1, 2) ELSE n

offVars == <<libVars, ipcVars, conVars, twoVars>>

\* the player creates the socket file named by --input-ipc-server
PlayerListen ==
    /\ process = "running"
    /\ ~sock
    /\ sock' = TRUE
    /\ UNCHANGED <<offVars, drvVars, player, sent, errors>>

\* _connect_ipc finds the socket file and connects
DrvConnect ==
    /\ sock
    /\ ConnectIpc
    /\ UNCHANGED envVars

\* the player opens the file: its duration and position become available
PlayerLoad ==
    /\ process = "running"
    /\ ~player.loaded
    /\ player' = [player EXCEPT !.loaded = TRUE]
    /\ UNCHANGED <<offVars, drvVars, sock, sent, errors>>

\* the player's next playlist entry, or its exit after the last (--idle=no)
NextEntry ==
    IF player.idx < Len(frame.series_files)
    THEN /\ player' = [player EXCEPT !.idx = @ + 1, !.pos = 0, !.loaded = FALSE]
         /\ UNCHANGED process
    ELSE /\ process' = "exited"
         /\ UNCHANGED player

\* the file cannot be opened: the player goes on to the next entry
PlayerSkip ==
    /\ process = "running"
    /\ ~player.loaded
    /\ NextEntry
    /\ UNCHANGED <<offVars, pc, frame, drv, ipc, result, sock, sent, errors>>

\* playback proceeds
PlayerPlay ==
    /\ process = "running"
    /\ player.loaded /\ ~player.paused
    /\ \E n \in Nums :
          /\ player.pos < n /\ n <= FileDur(Playing)
          /\ player' = [player EXCEPT !.pos = n]
    /\ UNCHANGED <<offVars, drvVars, sock, sent, errors>>

\* the file has been played to its end
PlayerAdvance ==
    /\ process = "running"
    /\ player.loaded /\ ~player.paused
    /\ player.pos = FileDur(Playing)
    /\ NextEntry
    /\ UNCHANGED <<offVars, pc, frame, drv, ipc, result, sock, sent, errors>>

\* the connection fails while the player keeps running
TransportBreak ==
    /\ ipc = "open"
    /\ process = "running"
    /\ ipc' = "broken"
    /\ UNCHANGED <<offVars, pc, frame, drv, process, result, envVars>>

DrvPollDuration ==
    \E v \in DurationAnswers :
       LET cmds == HandshakeCommands(drv, v, frame.start_time)
       IN /\ PollDuration(v)
          /\ sent' = sent \o Observed(v) \o Stamp(cmds)
          /\ player' = PlayerAfter(player, cmds)
          /\ errors' = Failed(errors)
          /\ UNCHANGED <<sock, ipcVars, conVars, twoVars>>

DrvPollPath ==
    \E v \in PathAnswers :
       /\ PollPath(v)
       /\ errors' = Failed(errors)
       /\ UNCHANGED <<player, sock, sent, ipcVars, conVars, twoVars>>

DrvPollPosition ==
    \E v \in PositionAnswers :
       /\ PollPosition(v)
       /\ errors' = Failed(errors)
       /\ UNCHANGED <<player, sock, sent, ipcVars, conVars, twoVars>>

\* the playlist of the directory session
DrvPlaylist == get_media_files(AllFiles, DirPath)

\* MpvDriver.launch(playlist, start_index, start_time) once the process is
\* spawned: a stale socket file has been removed
InitDrv ==
    /\ EmptyLibrary
    /\ NewDriver
    /\ NoLaunches
    /\ \E i \in 0..(Len(DrvPlaylist) - 1), t \in Nums :
          /\ frame = [filepath |-> DirPath, series_files |-> DrvPlaylist,
                      index_to_play |-> i, start_time |-> t]
          /\ drv = DrvStart(DrvPlaylist, i, t)
          /\ player = PlayerStart(i)
    /\ pc = "connect"
    /\ process = "running"
    /\ ipc = "none"
    /\ result = DefaultPlaybackState(0)
    /\ sock = FALSE
    /\ sent = <<>>
    /\ errors = 0

NextDrv ==
    \/ PlayerListen
    \/ DrvConnect
    \/ ConnectTimeout /\ UNCHANGED <<player, sent, errors, ipcVars, conVars, twoVars>>
    \/ DrvPollDuration
    \/ DrvPollPath
    \/ DrvPollPosition
    \/ ExitLoop /\ UNCHANGED <<player, sent, errors, ipcVars, conVars, twoVars>>
    \/ PlayerLoad
    \/ PlayerSkip
    \/ PlayerPlay
    \/ PlayerAdvance
    \/ PlayerExit /\ UNCHANGED envVars
    \/ TransportBreak

SpecDrv == InitDrv /\ [][NextDrv]_vars

\* the steps of MpvDriver.launch: the thread that called launch keeps
\* running, _connect_ipc gives up after its timeout and every poll returns
\* once the player is gone (recv reads the end of the stream)
DriverStep ==
    \/ DrvConnect
    \/ ConnectTimeout /\ UNCHANGED <<player, sent, errors, ipcVars, conVars, twoVars>>
    \/ DrvPollDuration
    \/ DrvPollPath
    \/ DrvPollPosition
    \/ ExitLoop /\ UNCHANGED <<player, sent, errors, ipcVars, conVars, twoVars>>

\* the driver and the player, with a driver that is never halted for ever
SpecDrvLive == SpecDrv /\ WF_vars(DriverStep)

(***************************************************************************)
(* MpvDriver._send_ipc_command on one connection                           *)
(***************************************************************************)
\* calls made on the connection
MaxCalls == 2

\* lines the socket holds until they are received
MaxStream == 2

\* seconds a call is followed while it waits
MaxElapsed == 3

\* sock.settimeout(2.0), in seconds
RecvTimeout == 2

\* a reply of the player to request k, carrying that request's data
Reply(k, err) == [kind |-> "reply", request_id |-> k, error |-> err, data |-> JNum(k)]

\* other lines on the stream: an event (a JSON object without request_id),
\* an empty line, text that is not JSON, JSON that is not an object
OtherLines ==
    {[kind |-> k, request_id |-> 0, error |-> "", data |-> JNull] :
        k \in {"event", "empty", "garbage", "nondict"}}

\* variant: the error of a matching reply is not looked at
Matched_ErrorIgnored(m) == [done |-> TRUE, ret |-> m.data, line |-> 177]

\* the return statement for the reply whose request_id matches
Matched(m) ==
    [done |-> TRUE, ret |-> IF m.error = "success" THEN m.data ELSE JNull,
     line |-> 177]

\* variant: the request_id of a reply is not compared
IsMatch_AnyReply(m, request_id) == m.kind = "reply"

\* resp.get("request_id") == request_id, for a line that parsed to an object
IsMatch(m, request_id) == m.request_id = request_id

\* the inner while loop over the lines of the buffer: the call returns (at
\* the matching reply, or through the outer handler when resp.get fails on
\* JSON that is no object), or the lines are used up
RECURSIVE Scan(_, _)
Scan(lines, request_id) ==
    IF lines = <<>> THEN [done |-> FALSE, ret |-> JNull, line |-> 0]
    ELSE LET m == Head(lines)
         IN IF m.kind \in {"empty", "garbage"} THEN Scan(Tail(lines), request_id)
            ELSE IF m.kind = "nondict"
            THEN [done |-> TRUE, ret |-> JNull, line |-> 184]
            ELSE IF IsMatch(m, request_id) THEN Matched(m)
            ELSE Scan(Tail(lines), request_id)

\* the call returns ret at the given line
Returned(ret, line) ==
    [call EXCEPT !.pc = "done", !.ret = ret, !.line = line]

offIpc == <<libVars, drvVars, plyVars, conVars, twoVars>>

\* lines 155-163: the next request id, sendall, settimeout; sendall may raise
\* once the player has closed the connection
Send(ok) ==
    /\ call.pc \in {"idle", "done"}
    /\ request_id_counter < MaxCalls
    /\ ok \/ chan.closed
    /\ request_id_counter' = request_id_counter + 1
    /\ LET before == IF call.pc = "done"
                     THEN Append(call.before, [ret |-> call.ret, line |-> call.line])
                     ELSE call.before
           started == [pc |-> "recv", request_id |-> request_id_counter + 1,
                       ret |-> JNull, line |-> 0, waited |-> 0, elapsed |-> 0,
                       before |-> before]
       IN IF ok
          THEN /\ call' = started
               /\ chan' = [chan EXCEPT !.pending =
                             IF chan.closed THEN @ ELSE @ \cup {request_id_counter + 1}]
          ELSE /\ call' = [started EXCEPT !.pc = "done", !.line = 184]
               /\ UNCHANGED chan
    /\ UNCHANGED offIpc

\* recv returns the first k lines the socket holds; the buffer is scanned
Recv(k) ==
    /\ call.pc = "recv"
    /\ k \in 1..Len(chan.stream)
    /\ LET r == Scan(SubSeq(chan.stream, 1, k), call.request_id)
       IN call' = IF r.done THEN Returned(r.ret, r.line)
                  ELSE [call EXCEPT !.waited = 0]
    /\ chan' = [chan EXCEPT !.stream = SubSeq(@, k + 1, Len(@))]
    /\ UNCHANGED <<request_id_counter, offIpc>>

\* recv returns no bytes: the player has closed the connection
RecvEof ==
    /\ call.pc = "recv"
    /\ chan.stream = <<>>
    /\ chan.closed
    /\ call' = Returned(JNull, 168)
    /\ UNCHANGED <<request_id_counter, chan, offIpc>>

\* a second passes in recv without data, and the timeout is not yet reached
Tick ==
    /\ call.pc = "recv"
    /\ chan.stream = <<>>
    /\ ~chan.closed
    /\ call.waited + 1 < RecvTimeout
    /\ call.elapsed < MaxElapsed
    /\ call' = [call EXCEPT !.waited = @ + 1, !.elapsed = @ + 1]
    /\ UNCHANGED <<request_id_counter, chan, offIpc>>

\* socket.timeout: the last second of the timeout passes in recv without data
RecvTimedOut ==
    /\ call.pc = "recv"
    /\ chan.stream = <<>>
    /\ ~chan.closed
    /\ call.waited + 1 = RecvTimeout
    /\ call' = [Returned(JNull, 181) EXCEPT !.waited = @ + 1, !.elapsed = @ + 1]
    /\ UNCHANGED <<request_id_counter, chan, offIpc>>

\* the player answers a request it has received, once, whenever it gets to it
PlayerReply(k, err) ==
    /\ k \in chan.pending
    /\ ~chan.closed
    /\ Len(chan.stream) < MaxStream
    /\ chan' = [chan EXCEPT !.stream = Append(@, Reply(k, err)),
                            !.pending = @ \ {k},
                            !.emitted = @ \cup {Reply(k, err)}]
    /\ UNCHANGED <<request_id_counter, call, offIpc>>

\* the player writes another line
PlayerEmit(m) ==
    /\ ~chan.closed
    /\ Len(chan.stream) < MaxStream
    /\ chan' = [chan EXCEPT !.stream = Append(@, m)]
    /\ UNCHANGED <<request_id_counter, call, offIpc>>

\* the player closes the connection
PeerClose ==
    /\ ~chan.closed
    /\ chan' = [chan EXCEPT !.closed = TRUE]
    /\ UNCHANGED <<request_id_counter, call, offIpc>>

NextIpc ==
    \/ \E ok \in BOOLEAN : Send(ok)
    \/ \E k \in 1..MaxStream : Recv(k)
    \/ RecvEof
    \/ Tick
    \/ RecvTimedOut
    \/ \E k \in 1..MaxCalls, err \in {"success", "property unavailable"} :
          PlayerReply(k, err)
    \/ \E m \in OtherLines : PlayerEmit(m)
    \/ PeerClose

SpecIpc == Init /\ [][NextIpc]_vars

(***************************************************************************)
(* Several MpvDriver.launch calls at a time, from threads of one host      *)
(* process or from different host processes on one machine                 *)
(***************************************************************************)
\* launches followed
MaxConcurrent == 2

\* os.getpid() of the host processes
HostPids == {1, 2}

\* lines 23-24: the endpoint name made by a launch in host process pid
socket_path(pid, windows) ==
    IF windows THEN [name |-> "\\\\.\\pipe\\mpv_socket", pid |-> 0]
    ELSE [name |-> "/tmp/mpv-socket-", pid |-> pid]

Running(l) == l \in DOMAIN launches /\ launches[l].pc # "ended"

\* the launches that are running and whose player made the endpoint at path
OwnersAt(path) ==
    IF path \in DOMAIN endpoints /\ Running(endpoints[path])
    THEN {endpoints[path]} ELSE {}

offCon == <<libVars, drvVars, plyVars, ipcVars, twoVars>>

\* lines 20-49: a launch begins in host process pid: it removes a socket file
\* found under its endpoint name and spawns its player
ConLaunch(pid) ==
    LET l == Len(launches) + 1
        path == socket_path(pid, is_windows)
        removes == ~is_windows /\ path \in DOMAIN endpoints
    IN /\ l <= MaxConcurrent
       /\ launches' = Append(launches,
                        [pid |-> pid, pc |-> "spawned", socket_path |-> path,
                         listens |-> FALSE, peer |-> 0,
                         removed |-> IF removes THEN OwnersAt(path) ELSE {}])
       /\ endpoints' = IF removes THEN Remove(endpoints, path) ELSE endpoints
       /\ UNCHANGED <<is_windows, offCon>>

\* the player of launch l creates its endpoint; where one exists under the
\* name it fails to, or (socket files) replaces it
ConListen(l, replace) ==
    /\ Running(l)
    /\ ~launches[l].listens
    /\ LET path == launches[l].socket_path
       IN IF path \notin DOMAIN endpoints \/ (replace /\ ~is_windows)
          THEN endpoints' = Put(endpoints, path, l)
          ELSE UNCHANGED endpoints
    /\ launches' = [launches EXCEPT ![l].listens = TRUE]
    /\ UNCHANGED <<is_windows, offCon>>

\* _connect_ipc of launch l connects to the socket file under its endpoint name
ConConnect(l) ==
    /\ Running(l)
    /\ launches[l].pc = "spawned"
    /\ ~is_windows
    /\ launches[l].socket_path \in DOMAIN endpoints
    /\ launches' = [launches EXCEPT ![l].pc = "connected",
                                    ![l].peer = endpoints[launches[l].socket_path]]
    /\ UNCHANGED <<endpoints, is_windows, offCon>>

\* launch l ends (connect timeout, or its player has exited): the finally
\* block; a named pipe ends with the player that made it
ConEnd(l) ==
    LET path == launches[l].socket_path
    IN /\ Running(l)
       /\ IF is_windows
          THEN /\ endpoints' = IF path \in DOMAIN endpoints /\ endpoints[path] = l
                               THEN Remove(endpoints, path) ELSE endpoints
               /\ launches' = [launches EXCEPT ![l].pc = "ended"]
          ELSE /\ endpoints' = IF path \in DOMAIN endpoints
                               THEN Remove(endpoints, path) ELSE endpoints
               /\ launches' = [launches EXCEPT
                                 ![l].pc = "ended",
                                 ![l].removed = @ \cup (OwnersAt(path) \ {l})]
       /\ UNCHANGED <<is_windows, offCon>>

InitCon ==
    /\ EmptyLibrary
    /\ NoLaunch
    /\ NewDriver
    /\ launches = <<>>
    /\ endpoints = <<>>
    /\ is_windows \in BOOLEAN

NextCon ==
    \/ \E pid \in HostPids : ConLaunch(pid)
    \/ \E l \in 1..MaxConcurrent, replace \in BOOLEAN : ConListen(l, replace)
    \/ \E l \in 1..MaxConcurrent : ConConnect(l)
    \/ \E l \in 1..MaxConcurrent : ConEnd(l)

SpecCon == InitCon /\ [][NextCon]_vars

(***************************************************************************)
(* JsonRepository on its own: sessions saved, then the file loaded by a    *)
(* new repository object                                                   *)
(***************************************************************************)
\* sessions as the Library Service hands them to save_session
SavedSessions ==
    {Session(p, MediaMetadata("T", season, lock),
             PlaybackState(<<"Show", "e1.mkv">>, 1, pos, 10, fin, ts)) :
        p \in Paths, season \in Opt({1}), lock \in BOOLEAN, pos \in {0, 3},
        fin \in BOOLEAN, ts \in {0, 1}}

\* JsonRepository.save_session
Save(session) ==
    LET saved == save_session(Repo, session, TRUE)
    IN /\ sessions' = saved.sessions
       /\ storage' = saved.storage
       /\ last' = Call("save", session.filepath, <<>>, <<>>, <<>>,
                       session.filepath \in DOMAIN sessions, FALSE, 92)
       /\ UNCHANGED <<fs, now, drvVars, envVars>>

\* JsonRepository.__init__ of a new repository on the same file
Restart ==
    /\ sessions' = LoadFromFile(storage)
    /\ last' = Call("load", <<>>, <<>>, <<>>, <<>>, FALSE, FALSE, 23)
    /\ UNCHANGED <<storage, fs, now, drvVars, envVars>>

NextStore ==
    \/ \E session \in SavedSessions : Save(session)
    \/ Restart

SpecStore == Init /\ [][NextStore]_vars

(***************************************************************************)
(* Two JsonRepository objects on the same file: main.py builds a new       *)
(* repository in every run of the script, and two runs may overlap         *)
(***************************************************************************)
\* sessions the two writers save
WriterSessions ==
    {Session(p, MediaMetadata("T", <<>>, FALSE),
             PlaybackState(<<"Show", "e1.mkv">>, 0, pos, 10, FALSE, 0)) :
        p \in Paths, pos \in {0, 3}}

\* the second repository as a pair (dict, file)
Repo2 == [sessions |-> sessions2, storage |-> storage]

\* JsonRepository.save_session of the second repository
SaveOther(session) ==
    LET saved == save_session(Repo2, session, TRUE)
    IN /\ sessions2' = saved.sessions
       /\ storage' = saved.storage
       /\ last' = Call("save2", session.filepath, <<>>, <<>>, <<>>,
                       session.filepath \in DOMAIN sessions2, FALSE, 92)
       /\ UNCHANGED <<sessions, fs, now, drvVars, plyVars, ipcVars, conVars>>

\* JsonRepository.__init__ of the second repository in a new run
RestartOther ==
    /\ sessions2' = LoadFromFile(storage)
    /\ last' = Call("load2", <<>>, <<>>, <<>>, <<>>, FALSE, FALSE, 23)
    /\ UNCHANGED <<sessions, storage, fs, now, drvVars, plyVars, ipcVars,
                   conVars>>

NextTwo ==
    \/ \E session \in WriterSessions : Save(session)
    \/ \E session \in WriterSessions : SaveOther(session)
    \/ Restart
    \/ RestartOther

SpecTwo == Init /\ [][NextTwo]_vars

(***************************************************************************)
(* The Library Service on a store whose writes may fail: every mutation,   *)
(* with a player the driver cannot connect to                              *)
(***************************************************************************)
NextLib ==
    \/ \E p \in Paths, w \in BOOLEAN :
          Resolve(p, NoGuess, w) /\ UNCHANGED envVars
    \/ \E p \in Paths, failAt \in 0..2 :
          UpdateMetadata(p, <<"T">>, <<>>, <<>>, NoGuess, failAt)
             /\ UNCHANGED envVars
    \/ \E p \in Paths, w \in BOOLEAN : Delete(p, w) /\ UNCHANGED envVars
    \/ \E p \in Paths, w \in BOOLEAN : FacadeDelete(p, w) /\ UNCHANGED envVars
    \/ \E p \in Paths, w \in BOOLEAN :
          LaunchMedia(p, NoGuess, w) /\ UNCHANGED envVars
    \/ ConnectTimeout /\ UNCHANGED envVars
    \/ \E w \in BOOLEAN : Merge(w) /\ UNCHANGED envVars

SpecLib == Init /\ [][NextLib]_vars

LaunchStep(p) == \E g \in GuessesFor(p) : LaunchMedia(p, g, TRUE)

Stored(p) == sessions[p].playback

\* C2: launch_media on a session whose stored state is finished at index i,
\* with i + 1 below the playlist length, calls the driver with the whole
\* playlist, start index i + 1 and start time 0.
C2_EpisodeAdvance ==
    [][\A p \in Paths :
          (/\ p \in DOMAIN sessions
           /\ LaunchStep(p)
           /\ Stored(p).is_finished
           /\ Stored(p).last_played_index + 1
                < Len(get_series_files(fs, sessions[p])))
          => /\ pc' = "connect" /\ process' = "running"
             /\ frame'.filepath = p
             /\ frame'.series_files = get_series_files(fs, sessions[p])
             /\ frame'.index_to_play = Stored(p).last_played_index + 1
             /\ frame'.start_time = 0]_vars

\* the driver runs episode 2 of 3 from its start for a session stored as
\* finished at index 0
C2_Witness ==
    /\ pc = "connect"
    /\ Len(frame.series_files) = 3
    /\ frame.index_to_play = 1 /\ frame.start_time = 0
    /\ sessions[frame.filepath].playback.is_finished
    /\ sessions[frame.filepath].playback.last_played_index = 0

\* C3: launch_media on a session whose stored state is finished at index i
\* with i + 1 >= N (N the playlist length) does not start the driver, leaves
\* the dict and the file as they are and returns the stored state.
C3_EndOfSeriesNoOp ==
    [][\A p \in Paths :
          (/\ p \in DOMAIN sessions
           /\ LaunchStep(p)
           /\ Stored(p).is_finished
           /\ Stored(p).last_played_index + 1
                >= Len(get_series_files(fs, sessions[p])))
          => /\ pc' = "idle" /\ process' = "none"
             /\ sessions' = sessions
             /\ storage' = storage
             /\ ~last'.raised
             /\ last'.ret = Stored(p)]_vars

\* a launch ended at "End of series." on the last file of the playlist
C3_Witness ==
    /\ pc = "idle"
    /\ last.op = "launch" /\ last.line = 123
    /\ last.path \in DOMAIN sessions
    /\ sessions[last.path].playback.is_finished
    /\ sessions[last.path].playback.last_played_index + 1
         = Len(get_series_files(fs, sessions[last.path]))
    /\ last.ret = sessions[last.path].playback

\* C4: when launch_media calls the driver for a session whose stored state is
\* not finished, the start index is the stored last_played_index and the
\* start time the stored position; for a finished stored state the start time
\* is 0.
C4_ResumePoint ==
    [][\A p \in Paths :
          (LaunchStep(p) /\ pc' = "connect")
          => /\ frame'.filepath = p
             /\ ~sessions'[p].playback.is_finished
                  => /\ frame'.index_to_play = sessions'[p].playback.last_played_index
                     /\ frame'.start_time = sessions'[p].playback.position
             /\ sessions'[p].playback.is_finished => frame'.start_time = 0]_vars

\* the driver resumes an unfinished episode 2 at second 3
C4_Witness ==
    /\ pc = "connect"
    /\ ~sessions[frame.filepath].playback.is_finished
    /\ sessions[frame.filepath].playback.position = 3
    /\ sessions[frame.filepath].playback.last_played_index = 1
    /\ frame.start_time = 3 /\ frame.index_to_play = 1

\* the step of launch_media after the driver returned
MergeStep == pc = "returned" /\ pc' = "idle"

PositionIn(seq, x, i) ==
    \/ i >= 1 /\ i <= Len(seq) /\ seq[i] = x
    \/ i = 1 /\ \A j \in 1..Len(seq) : seq[j] # x

\* C5: after the driver returned, launch_media sets the session's position,
\* duration, is_finished, timestamp and last_played_file to the driver's
\* result and last_played_index to the index of that file in the playlist (0
\* when the file is not in it), and the file then holds the session as merged.
C5_MergeDriverResult ==
    [][MergeStep
        => LET p == frame.filepath
               merged == sessions'[p].playback
           IN /\ merged.position = result.position
              /\ merged.duration = result.duration
              /\ merged.is_finished = result.is_finished
              /\ merged.timestamp = result.timestamp
              /\ merged.last_played_file = result.last_played_file
              /\ PositionIn(frame.series_files, result.last_played_file,
                            merged.last_played_index + 1)
              /\ sessions'[p].metadata = sessions[p].metadata
              /\ storage'.exists
              /\ LoadFromFile(storage')[p] = sessions'[p]
              /\ last'.ret = merged]_vars

\* a launch ended with the second of three files at second 3 of 10
C5_Witness ==
    /\ pc = "idle"
    /\ last.op = "launch" /\ last.line = 146
    /\ LET merged == sessions[last.path].playback
       IN /\ merged.last_played_file = <<"Show", "e2.mkv">>
          /\ merged.last_played_index = 1
          /\ merged.position = 3 /\ merged.duration = 10
          /\ ~merged.is_finished
          /\ LoadFromFile(storage)[last.path].playback = merged

PlaybackFields(pb) ==
    <<pb.last_played_file, pb.last_played_index, pb.position, pb.duration,
      pb.is_finished>>

\* C6: when the driver could not connect to the IPC socket, launch_media
\* leaves last_played_file, last_played_index, position, duration and
\* is_finished of the session as they were before the call, in the dict and
\* in the file (stated for the sessions that hold the state of an earlier
\* run, whose duration is known).
C6_FailedLaunchKeepsSession ==
    [][(MergeStep /\ ipc = "failed" /\ sessions[frame.filepath].playback.duration > 0)
        => LET p == frame.filepath
           IN /\ PlaybackFields(sessions'[p].playback)
                   = PlaybackFields(sessions[p].playback)
              /\ PlaybackFields(LoadFromFile(storage')[p].playback)
                   = PlaybackFields(sessions[p].playback)]_vars

(***************************************************************************)
(* Claims about session creation and metadata (checked under SpecMeta)     *)
(***************************************************************************)
Locked(p) == p \in DOMAIN sessions /\ sessions[p].metadata.is_user_locked_title

TitleOf(dict, p) == dict[p].metadata.clean_title

\* C7: update_session_metadata on a session whose lock flag is set at the
\* start of the call, with the lock argument absent or True, leaves
\* clean_title as it was; a title is written only when the session was
\* unlocked or the same call passes the lock argument False.
C7_TitleWriteNeedsUnlock ==
    [][\A p \in Paths :
          (/\ last'.op = "update" /\ last'.path = p
           /\ Locked(p)
           /\ last'.lock # <<FALSE>>)
          => TitleOf(sessions', p) = TitleOf(sessions, p)]_vars

\* a call that passed a title and no lock argument on a locked session, and
\* the title is not the one passed
C7_Witness ==
    /\ last.op = "update" /\ last.existed /\ ~last.raised
    /\ last.title = <<"T">> /\ last.lock = <<>>
    /\ Locked(last.path)
    /\ TitleOf(sessions, last.path) # "T"

\* C8: while a session is locked, every resolve call and every
\* update_session_metadata call that does not pass the lock argument False
\* for it leaves its clean_title unchanged and leaves it locked, so the title
\* survives any sequence of such calls; resolve never guesses again.
C8_LockedTitleStable ==
    [][\A p \in Paths :
          (/\ Locked(p)
           /\ \/ last'.op = "resolve"
              \/ last'.op = "update" /\ ~(last'.path = p /\ last'.lock = <<FALSE>>))
          => /\ p \in DOMAIN sessions'
             /\ sessions'[p].metadata.is_user_locked_title
             /\ TitleOf(sessions', p) = TitleOf(sessions, p)]_vars

\* resolve of an existing locked session whose title is the user's
C8_Witness ==
    /\ last.op = "resolve" /\ last.existed
    /\ Locked(last.path)
    /\ TitleOf(sessions, last.path) = "T"

\* C9: resolve of a path that has no session adds exactly that path, with the
\* lock flag False, the default playback state and the guessed title when the
\* guesser returned one (the base name when it returned none or raised), and
\* the file then holds the new session too.
C9_ResolveCreates ==
    [][\A p \in Paths :
          (last'.op = "resolve" /\ last'.path = p /\ p \notin DOMAIN sessions)
          => \A g \in Guesses :
               Resolve(p, g, TRUE)
               => /\ DOMAIN sessions' = DOMAIN sessions \cup {p}
                  /\ \A q \in DOMAIN sessions : sessions'[q] = sessions[q]
                  /\ sessions'[p].filepath = p
                  /\ sessions'[p].metadata.is_user_locked_title = FALSE
                  /\ sessions'[p].metadata.clean_title =
                       (IF g.raises \/ g.title = <<>> THEN p[Len(p)]
                        ELSE g.title[1])
                  /\ sessions'[p].playback = PlaybackState(<<>>, 0, 0, 0, FALSE, now)
                  /\ storage'.exists
                  /\ LoadFromFile(storage') = sessions']_vars

\* the path "Show/e1.mkv" was resolved for the first time without a guess
C9_Witness ==
    /\ last.op = "resolve" /\ ~last.existed /\ ~last.raised
    /\ last.path = FilePath
    /\ FilePath \in DOMAIN sessions
    /\ TitleOf(sessions, FilePath) = "e1.mkv"
    /\ ~sessions[FilePath].metadata.is_user_locked_title
    /\ FilePath \in DOMAIN storage.data

\* C10: every session's clean_title is a non-empty string.
C10_CleanTitleNonEmpty ==
    \A p \in DOMAIN sessions : TitleOf(sessions, p) # ""

(***************************************************************************)
(* Claims about the driver and the player (checked under SpecDrv)          *)
(***************************************************************************)
PositionWithinDuration(ps) ==
    /\ ps.position >= 0
    /\ ps.duration >= 0
    /\ ps.duration > 0 => ps.position <= ps.duration

\* C11: every PlaybackState returned by the driver and every playback state
\* stored in a session has position >= 0, duration >= 0, and position <=
\* duration whenever duration > 0, whatever the player does.
C11_PositionWithinDuration ==
    /\ pc = "returned" => PositionWithinDuration(result)
    /\ \A p \in DOMAIN sessions : PositionWithinDuration(sessions[p].playback)

\* C15: when the IPC connection is not established within the connect bound,
\* launch sends no command, terminates the player process and returns the
\* default PlaybackState: no file, index 0, position 0, duration 0, not
\* finished.
C15_ConnectFailureReturnsDefault ==
    (pc = "returned" /\ ipc = "failed")
      => /\ sent = <<>> /\ errors = 0
         /\ process # "running"
         /\ result.last_played_file = <<>>
         /\ result.last_played_index = 0
         /\ result.position = 0
         /\ result.duration = 0
         /\ ~result.is_finished

\* C16: when launch ends after the player process was spawned, the process
\* is not running and the socket file does not exist.
C16_TerminalCleanup ==
    pc = "returned" => (process # "running" /\ ~sock)

\* launch ended after a tracked run: the socket file the driver connected
\* to is gone and the player has exited
C16_Witness ==
    /\ pc = "returned" /\ ipc = "closed"
    /\ process = "exited" /\ ~sock
    /\ result.position = 3

\* the positions in the log of the entries with the given name
Entries(name) == {i \in 1..Len(sent) : sent[i].name = name}

\* C17: within one launch no seek and no unpause is sent before a duration
\* poll has returned a positive value; with a non-zero start time the
\* absolute seek to that time is sent before the unpause; at most one seek
\* and at most one unpause are sent.
C17_HandshakeOrder ==
    /\ \A i \in Entries("seek") \cup Entries("unpause") :
          \E j \in Entries("duration") : j < i /\ sent[j].arg > 0
    /\ \A i \in Entries("unpause") :
          frame.start_time # 0
            => \E j \in Entries("seek") : j < i /\ sent[j].arg = frame.start_time
    /\ Cardinality(Entries("seek")) <= 1
    /\ Cardinality(Entries("unpause")) <= 1

\* a launch with start time 3 has sent the seek to 3 and then the unpause,
\* after the duration 10 was reported, and went on polling
C17_Witness ==
    /\ pc = "dur" /\ drv.final_position = 10
    /\ frame.start_time = 3
    /\ Len(sent) = 3
    /\ sent[1].name = "duration" /\ sent[1].arg = 10
    /\ sent[2].name = "seek" /\ sent[2].arg = 3
    /\ sent[3].name = "unpause"

\* C18: the initial seek is applied only to the first file of the run: no
\* seek is sent while the player plays another file than the intended first
\* file, also when the player moved on before the first file reported a
\* positive duration.
C18_SeekOnlyFirstFile ==
    \A i \in Entries("seek") :
        sent[i].playing = FirstFile(frame.series_files, frame.index_to_play)

\* C19: after a transport error in the middle of a run the driver issues no
\* further poll: the poll that meets the failed connection is the last one.
C19_NoPollAfterTransportError ==
    errors <= 1

C13_OnlyMatchingReply ==
    call.pc = "done"
      => /\ call.ret # JNull => call.line = 177
         /\ call.line = 177
              => \E m \in chan.emitted :
                    /\ m.request_id = call.request_id
                    /\ call.ret = IF m.error = "success" THEN m.data ELSE JNull

\* the first call timed out, its reply came late and was received during the
\* second call, which returned the data of its own reply
C13_Witness ==
    /\ call.pc = "done" /\ call.request_id = 2
    /\ call.line = 177 /\ call.ret = JNum(2)
    /\ call.before = <<[ret |-> JNull, line |-> 181]>>
    /\ Reply(1, "success") \in chan.emitted
    /\ chan.stream = <<>>

\* C14: a send call that gets no matching reply returns None once the
\* receive timeout has passed since the call began, also while the player
\* keeps writing other lines.
C14_ReturnsAfterTimeout ==
    call.pc = "recv" => call.elapsed <= RecvTimeout

(***************************************************************************)
(* Claims about concurrent launches (checked under SpecCon)                *)
(***************************************************************************)
\* C20: no two launches that overlap in time use the same IPC endpoint name,
\* also when they run in the same host process; no launch removes or
\* connects to an endpoint that belongs to another running launch.
C20_EndpointPerLaunch ==
    /\ \A l, m \in DOMAIN launches :
          (l # m /\ Running(l) /\ Running(m))
            => launches[l].socket_path # launches[m].socket_path
    /\ \A l \in DOMAIN launches :
          /\ launches[l].peer \in {0, l}
          /\ launches[l].removed = {}

(***************************************************************************)
(* Claims about the series playlist and the empty launch (checked under    *)
(* Spec)                                                                   *)
(***************************************************************************)
\* the playlist of a path: the file alone for a file, the sorted media
\* files under it for a directory
PlaylistOf(files, p) ==
    IF isfile(files, p) THEN <<p>> ELSE get_media_files(files, p)

\* C24: the playlist launch_media hands to the driver for a session whose
\* path is a single file is that file alone; for a directory it is the
\* sorted list of the media files under it.
C24_SingleFilePlaylist ==
    pc # "idle" => frame.series_files = PlaylistOf(fs, frame.filepath)

\* C26: launch_media on a playlist that is empty does not start the driver,
\* leaves the dict and the file of an existing session as they are, leaves
\* the playback state of the session as it is and returns that state.
C26_EmptyPlaylistNoOp ==
    [][\A p \in Paths :
          (/\ LaunchStep(p)
           /\ ~isfile(fs, p)
           /\ get_media_files(fs, p) = <<>>)
          => /\ pc' = "idle" /\ process' = "none"
             /\ UNCHANGED <<frame, drv, ipc, result, now>>
             /\ p \in DOMAIN sessions
                  => sessions' = sessions /\ storage' = storage
             /\ p \notin DOMAIN sessions
                  => sessions'[p].playback = DefaultPlaybackState(now)
             /\ ~last'.raised
             /\ last'.ret = sessions'[p].playback]_vars

\* a launch of a session with a stored position found no media file, and the
\* stored state came back
C26_Witness ==
    /\ pc = "idle"
    /\ last.op = "launch" /\ last.line = 113 /\ last.existed
    /\ get_series_files(fs, sessions[last.path]) = <<>>
    /\ sessions[last.path].playback.position = 3
    /\ last.ret = sessions[last.path].playback

(***************************************************************************)
(* Claim about the other metadata fields (checked under SpecMeta)          *)
(***************************************************************************)
\* C25: update_session_metadata writes a provided season to season_number
\* and a provided lock flag to is_user_locked_title whatever the lock state,
\* leaves the fields that were not provided and the playback state as they
\* were, and every call leaves the session in the file as it is in the dict,
\* also a call whose title was held back by the lock.
C25_SeasonAndLockAlwaysWritten ==
    [][\A p \in Paths :
          (last'.op = "update" /\ last'.path = p)
          => LET new == sessions'[p].metadata
             IN /\ last'.season # <<>> => new.season_number = last'.season
                /\ last'.lock # <<>> => new.is_user_locked_title = last'.lock[1]
                /\ p \in DOMAIN sessions
                     => LET old == sessions[p].metadata
                        IN /\ last'.season = <<>>
                                => new.season_number = old.season_number
                           /\ last'.lock = <<>>
                                => new.is_user_locked_title
                                     = old.is_user_locked_title
                           /\ last'.title = <<>>
                                => new.clean_title = old.clean_title
                           /\ sessions'[p].playback = sessions[p].playback
                /\ storage'.exists
                /\ p \in DOMAIN storage'.data
                /\ LoadFromFile(storage')[p] = sessions'[p]]_vars

\* a call with a title and season 2 on a locked session: the title was held
\* back, the season is 2 in the dict and in the file
C25_Witness ==
    /\ last.op = "update" /\ last.existed /\ ~last.raised
    /\ last.title = <<"T">> /\ last.season = <<2>> /\ last.lock = <<>>
    /\ Locked(last.path)
    /\ TitleOf(sessions, last.path) # "T"
    /\ sessions[last.path].metadata.season_number = <<2>>
    /\ LoadFromFile(storage)[last.path].metadata.season_number = <<2>>

(***************************************************************************)
(* Claims about one tracking tick (checked under Spec, where the player's  *)
(* answers are arbitrary)                                                  *)
(***************************************************************************)
\* what the tick tracks: the current file, its duration, the position
Tracked(d) == <<d.last_played_file, d.total_duration, d.final_position>>

\* the reply is a path: a string that is not empty
IsPath(v) == v.tag = "str" /\ v.str # <<>>

\* C27: in a tick, a path poll that returns a path different from the
\* tracked file makes that path the tracked file and sets the tracked
\* duration and position to 0 before the position poll of the tick; a path
\* poll that returns null or the tracked file leaves all three as they are.
C27_EpisodeTransition ==
    [][\A v \in PathReplies :
          (pc = "path" /\ PollPath(v))
          => /\ pc' = "pos"
             /\ (IsPath(v) /\ v.str # drv.last_played_file)
                  => Tracked(drv') = <<v.str, 0, 0>>
             /\ (v = JNull \/ (IsPath(v) /\ v.str = drv.last_played_file))
                  => Tracked(drv') = Tracked(drv)]_vars

\* the position poll of a tick is next, after the path poll moved the tracked
\* file from Show/e1.mkv, whose duration was known, to Show/e2.mkv
C27_Witness ==
    /\ pc = "pos"
    /\ frame.index_to_play = 0
    /\ Tracked(drv) = <<<<"Show", "e2.mkv">>, 0, 0>>
    /\ drv.initial_seek_done

\* the reply is null or cannot be parsed as a number
Unknown(v) == v.tag # "num"

\* a step inside the tracking loop
TickStep == pc \in {"dur", "path", "pos"} /\ pc' \in {"dur", "path", "pos"}

\* C28: a position poll that returns null or an unparseable value leaves the
\* tracked position as it is, a duration poll that returns null or an
\* unparseable value leaves the tracked duration as it is, and inside the
\* loop a position that is not 0 becomes 0 only by an episode transition or
\* by the player answering 0, never by a failed poll.
C28_UnknownRetained ==
    [][/\ \A v \in NumberReplies :
            (pc = "pos" /\ PollPosition(v) /\ Unknown(v))
            => Tracked(drv') = Tracked(drv)
       /\ \A v \in NumberReplies :
            (pc = "dur" /\ PollDuration(v) /\ Unknown(v))
            => Tracked(drv') = Tracked(drv)
       /\ (TickStep /\ drv.final_position # 0 /\ drv'.final_position = 0)
            => \/ pc = "path" /\ drv'.last_played_file # drv.last_played_file
               \/ pc = "pos" /\ PollPosition(JNum(0)) /\ ~PollPosition(JNull)]_vars

\* a tick is over with the duration 10 known and the tracked position still
\* the start time 3 (the position poll failed, or answered 3)
C28_Witness ==
    /\ pc = "dur"
    /\ frame.start_time = 3
    /\ drv.final_position = 3 /\ drv.total_duration = 10
    /\ drv.last_played_file = FirstFile(frame.series_files, frame.index_to_play)

\* C29: a duration poll sets the tracked duration only while that is 0; a
\* tracked duration that is positive is changed by no duration poll and by
\* no other step of the loop but an episode transition, which sets it to 0.
C29_DurationAdoptedOnce ==
    [][/\ \A v \in NumberReplies :
            (pc = "dur" /\ PollDuration(v))
            => /\ drv.total_duration # 0
                    => drv'.total_duration = drv.total_duration
               /\ drv.total_duration = 0
                    => drv'.total_duration = (IF Unknown(v) THEN 0 ELSE v.num)
       /\ (TickStep /\ drv.total_duration > 0
             /\ drv'.total_duration # drv.total_duration)
            => /\ pc = "path"
               /\ drv'.last_played_file # drv.last_played_file
               /\ drv'.total_duration = 0]_vars

\* the duration poll of a later tick is over (the position moved from 0 to
\* 3 in an earlier tick) and the tracked duration is the 10 adopted before
C29_Witness ==
    /\ pc = "path"
    /\ frame.start_time = 0
    /\ drv.final_position = 3 /\ drv.total_duration = 10
    /\ drv.last_played_file = FirstFile(frame.series_files, frame.index_to_play)

IdleCall(ops) == pc = "idle" /\ last'.op \in ops

\* a mutation completed in this step: a resolve or a launch that created the
\* session, an update, the merge after the driver returned, a deletion by
\* the repository
CompletedMutation ==
    /\ ~last'.raised
    /\ \/ MergeStep
       \/ IdleCall({"update", "delete"})
       \/ IdleCall({"resolve", "launch"}) /\ ~last'.existed

\* a deletion through the facade ended at its last line, after the
\* repository had deleted the session
FacadeDeleted == IdleCall({"facade_delete"}) /\ last'.line = 117

\* C21: after every completed mutation (a resolve that creates, an update,
\* the merge of a launch, a deletion) the dict shared by the Library Service
\* and the repository and the content of the file hold the same paths with
\* equal sessions, and a deleted path is in neither.
C21_CacheConsistent ==
    [][(CompletedMutation \/ FacadeDeleted)
        => /\ storage'.exists
           /\ LoadFromFile(storage') = sessions'
           /\ (IdleCall({"delete"}) \/ FacadeDeleted)
                => /\ last'.path \notin DOMAIN sessions'
                   /\ last'.path \notin DOMAIN storage'.data]_vars

\* a deletion completed: the deleted path is gone, and the session of the
\* other path, renamed and merged after a launch, is in the dict and in the
\* file
C21_Witness ==
    /\ pc = "idle"
    /\ last.op = "delete" /\ ~last.raised
    /\ last.path = FilePath
    /\ FilePath \notin DOMAIN sessions
    /\ DirPath \in DOMAIN sessions
    /\ sessions[DirPath].playback.last_played_file = <<"Show", "e1.mkv">>
    /\ sessions[DirPath].metadata.clean_title = "T"
    /\ storage.exists
    /\ FilePath \notin DOMAIN storage.data
    /\ LoadFromFile(storage) = sessions

\* C23: a write of the file that fails during resolve, update_session_metadata
\* or launch_media ends the call with an error: the call that creates the
\* session raises (and launch_media then does not start the player), an
\* update whose first or second write fails raises, and the merge after the
\* driver returned raises.
C23_PersistFailureRaises ==
    [][/\ \A p \in Paths :
            (IdleCall({"resolve"}) /\ p \notin DOMAIN sessions
               /\ Resolve(p, NoGuess, FALSE))
            => last'.raised
       /\ \A p \in Paths :
            (IdleCall({"launch"}) /\ p \notin DOMAIN sessions
               /\ LaunchMedia(p, NoGuess, FALSE))
            => last'.raised /\ pc' = "idle" /\ process' = "none"
       /\ \A p \in Paths, failAt \in 1..2 :
            (IdleCall({"update"})
               /\ UpdateMetadata(p, <<"T">>, <<>>, <<>>, NoGuess, failAt))
            => last'.raised
       /\ (MergeStep /\ Merge(FALSE)) => last'.raised]_vars

\* launch_media raised at its last write: the dict holds the merged state,
\* the file does not
C23_Witness ==
    /\ pc = "idle"
    /\ last.op = "launch" /\ last.raised /\ last.line = 146
    /\ sessions[last.path].playback.last_played_file = <<"Show", "e1.mkv">>
    /\ storage.exists
    /\ LoadFromFile(storage)[last.path].playback.last_played_file = <<>>

(***************************************************************************)
(* Claim about two writers of the file (checked under SpecTwo)             *)
(***************************************************************************)
\* C22: a write of a session by one of two repositories on the same file
\* leaves every session of another path that the file held, whichever
\* repository had written it: after two writers saved sessions of different
\* paths the file holds both.
C22_WritersKeepEachOther ==
    [][last'.op \in {"save", "save2"}
        => \A q \in DOMAIN LoadFromFile(storage) \ {last'.path} :
              /\ q \in DOMAIN storage'.data
              /\ storage'.data[q] = storage.data[q]]_vars

(***************************************************************************)
(* Claims about failed writes and other paths (checked under SpecLib)      *)
(***************************************************************************)
\* a call on last'.path that may write: it began in this step, or it is the
\* merge of the launch that is running
ServiceStep(ops) == IdleCall(ops) \/ (MergeStep /\ "launch" \in ops)

\* C35: when the write of the file fails during update_session_metadata or
\* launch_media, the dict holds every session with the field values it had
\* before the step, so the dict never holds a change the file does not hold.
C35_FailedPersistKeepsMemory ==
    [][(ServiceStep({"update", "launch"}) /\ last'.raised)
        => sessions' = sessions]_vars

SameAt(f, g, q) ==
    /\ q \in DOMAIN f <=> q \in DOMAIN g
    /\ q \in DOMAIN f => f[q] = g[q]

\* C36: resolve, update_session_metadata, launch_media and the deletion of a
\* session, called for path P, leave every other path as it was in the dict
\* and in the file: present or absent as before, with the same session.
C36_OtherPathsUntouched ==
    [][ServiceStep({"resolve", "update", "launch", "delete"})
        => \A q \in Paths \ {last'.path} :
              /\ SameAt(sessions', sessions, q)
              /\ SameAt(storage'.data, storage.data, q)]_vars

(***************************************************************************)
(* Claim about the start index (checked under Spec, where a file of the    *)
(* series comes and goes between launches)                                 *)
(***************************************************************************)
\* C33: while the driver runs, the start index launch_media passed to it is
\* an index of the playlist passed with it: 0 <= index_to_play and
\* index_to_play < len(series_files).
C33_StartIndexInPlaylist ==
    pc \notin {"idle", "returned"}
        => /\ 0 <= frame.index_to_play
           /\ frame.index_to_play < Len(frame.series_files)

(***************************************************************************)
(* Claim about malformed lines (checked under SpecIpc)                     *)
(***************************************************************************)
\* the positions of the replies to request k among the lines
RepliesTo(lines, k) ==
    {j \in 1..Len(lines) : lines[j].kind = "reply" /\ lines[j].request_id = k}

\* C32: lines that are empty, not JSON or not a reply object are discarded:
\* a recv that brings no reply to the running call leaves the call waiting,
\* and a recv that brings the reply to the running call, after whatever
\* other lines, ends the call with that reply.
C32_MalformedLineDiscarded ==
    [][\A k \in 1..MaxStream :
          (call.pc = "recv" /\ Recv(k))
          => LET lines == SubSeq(chan.stream, 1, k)
                 hits == RepliesTo(lines, call.request_id)
             IN /\ hits = {} => call'.pc = "recv"
                /\ \A j \in hits :
                     /\ call'.pc = "done"
                     /\ call'.line = 177
                     /\ call'.ret = (IF lines[j].error = "success"
                                     THEN lines[j].data ELSE JNull)]_vars

(***************************************************************************)
(* Claim about the final state and the player (checked under SpecDrv)      *)
(***************************************************************************)
\* the positions the player reports while it plays file f
PositionsOf(f) == {n \in Nums : n <= FileDur(f)}

\* C34: the state the driver returns names a file together with values of
\* that file: its duration is 0 (nothing observed) or the duration the
\* player reports for the file, and its position is the start time (nothing
\* observed) or a position the player reports for the file, however the
\* player's advances and null answers fall between the polls.
C34_FinalStateCoherent ==
    (pc = "returned" /\ ipc # "failed")
        => /\ result.duration \in {0, FileDur(result.last_played_file)}
           /\ result.position \in
                {frame.start_time} \cup PositionsOf(result.last_played_file)

(***************************************************************************)
(* Claim about the end of launch (checked under SpecDrvLive)               *)
(***************************************************************************)
\* C31: whenever the player process is no longer running, launch goes on to
\* its return, and once it has returned its result stays the one
\* PlaybackState it returned.
C31_TerminationObserved ==
    /\ (process # "running") ~> (pc = "returned")
    /\ [][pc = "returned" => (pc' = "returned" /\ result' = result)]_vars

\* launch returned after the player had gone away in the middle of the
\* first file
C31_Witness ==
    /\ pc = "returned" /\ ipc = "closed"
    /\ process = "exited"
    /\ frame.index_to_play = 0
    /\ result.last_played_file = <<"Show", "e1.mkv">>
    /\ result.position = 3 /\ result.duration = 10
    /\ ~result.is_finished

====
